---- MODULE Spec2Model ----
(***************************************************************************)
(* Model of scripts/import-calendar.py: the calendar-event importer.       *)
(*                                                                         *)
(* JSON values are records tagged by t, each type with its own payload     *)
(* field; an object carries its keys in the order the document wrote them  *)
(* and a function from its keys to their values.  Numbers are integers:   *)
(* fractions are not among the values.  Strings are made                   *)
(* of printable ASCII, tab, line feed, carriage return, form feed and the  *)
(* Latin-1 characters U+00A1 to U+00FF without U+00AD.  Python exceptions  *)
(* are the value Err(kind).  The table calendar_events is a set of rows;   *)
(* `db` is its committed content and `view` is what the importer's open    *)
(* connection sees (its uncommitted transaction).  The table's definition  *)
(* is not part of the script: its column googleEventId has a unique key,   *)
(* which never counts NULL as a duplicate, and either takes NULL or not    *)
(* (nullableKey); keys are the same when their texts are the same.         *)
(***************************************************************************)
EXTENDS Integers, Sequences, FiniteSets, TLC

----------------------------------------------------------------------------
(* Bounds of the model *)

\* longest `result` array of an input document
MaxBatch == 2

\* last reading of the database clock NOW()
MaxNow == 1

\* most rows of the table whose googleEventId is NULL
MaxNullRows == 2

(* Program constants *)

\* the [:500] slices of lines 71, 85, 87, 88
MaxFieldLen == 500

----------------------------------------------------------------------------
(* JSON values and the Python operations the script applies to them *)

JNull == [t |-> "null"]
JStr(s) == [t |-> "str", str |-> s]
JNum(i) == [t |-> "num", num |-> i]
JBool(b) == [t |-> "bool", bool |-> b]
JList(q) == [t |-> "list", items |-> q]

\* The dict json.load builds from an object's members <<key, value>>, in
\* the order written: a repeated key keeps its first place and takes its
\* last value.
JObj(pairs) ==
    LET N == Len(pairs)
        IsFirst(i) == \A j \in 1..(i - 1) : pairs[j][1] # pairs[i][1]
        LastOf(k) == CHOOSE i \in 1..N :
                         /\ pairs[i][1] = k
                         /\ \A j \in (i + 1)..N : pairs[j][1] # k
        firsts == SelectSeq([i \in 1..N |-> i], IsFirst)
    IN  [t |-> "obj",
         keys |-> [n \in 1..Len(firsts) |-> pairs[firsts[n]][1]],
         fields |-> [k \in {pairs[i][1] : i \in 1..N} |-> pairs[LastOf(k)][2]]]

Err(kind) == [t |-> "err", kind |-> kind]
IsErr(x) == x.t = "err"

\* Python truthiness, as used by `or` and `if`
Truthy(x) ==
    CASE x.t = "null" -> FALSE
      [] x.t = "str"  -> x.str # ""
      [] x.t = "num"  -> x.num # 0
      [] x.t = "bool" -> x.bool
      [] x.t = "list" -> Len(x.items) > 0
      [] x.t = "obj"  -> Len(x.keys) > 0

\* a or b
Or(a, b) == IF Truthy(a) THEN a ELSE b

\* x.get(k, default): only a dict has .get
Get(x, k, default) ==
    IF x.t # "obj" THEN Err("AttributeError")
    ELSE IF k \in DOMAIN x.fields THEN x.fields[k] ELSE default

\* the substring test `k in s` of two strings
Contains(s, k) ==
    \E i \in 0..(Len(s) - Len(k)) : SubSeq(s, i + 1, i + Len(k)) = k

\* the values `in` and `for` accept; on the others they raise TypeError
Iterable(x) == x.t \in {"obj", "list", "str"}

\* k in x, for a string k and an iterable x
In(k, x) ==
    CASE x.t = "obj"  -> k \in DOMAIN x.fields
      [] x.t = "list" -> \E i \in 1..Len(x.items) : x.items[i] = JStr(k)
      [] x.t = "str"  -> Contains(x.str, k)

Min(a, b) == IF a < b THEN a ELSE b

\* x[:n]
Slice(x, n) ==
    CASE x.t = "str"  -> JStr(SubSeq(x.str, 1, Min(Len(x.str), n)))
      [] x.t = "list" -> JList(SubSeq(x.items, 1, Min(Len(x.items), n)))
      [] OTHER        -> Err("TypeError")

RECURSIVE ReplaceZ(_)
\* s.replace('Z', '+00:00')
ReplaceZ(s) ==
    IF s = "" THEN ""
    ELSE IF Len(s) = 1 THEN (IF s = "Z" THEN "+00:00" ELSE s)
    ELSE LET m == Len(s) \div 2
         IN  ReplaceZ(SubSeq(s, 1, m)) \o ReplaceZ(SubSeq(s, m + 1, Len(s)))

----------------------------------------------------------------------------
(* datetime.fromisoformat as CPython 3.11 implements it: the calendar date  *)
(* YYYY-MM-DD or YYYYMMDD or the week date YYYY-Www[-D] or YYYYWww[D], then *)
(* one separator character and the time HH[[:]MM[[:]SS[(.|,)f...]]], then  *)
(* Z or a signed offset written like a time.  Positions count from 1; the   *)
(* character past the end of a string is "".                                *)

Digits == <<"0", "1", "2", "3", "4", "5", "6", "7", "8", "9">>

IsDigit(c) == \E i \in 1..10 : Digits[i] = c

DigitVal(c) == (CHOOSE i \in 1..10 : Digits[i] = c) - 1

AllDigits(s) == \A i \in 1..Len(s) : IsDigit(SubSeq(s, i, i))

RECURSIVE ToNat(_)
ToNat(s) ==
    IF s = "" THEN 0
    ELSE 10 * ToNat(SubSeq(s, 1, Len(s) - 1)) + DigitVal(SubSeq(s, Len(s), Len(s)))

\* s[i], "" past the end
At(s, i) == IF i >= 1 /\ i <= Len(s) THEN SubSeq(s, i, i) ELSE ""

\* parse_digits succeeds: the n characters of s from p on are digits
DigitsAt(s, p, n) == \A i \in p..(p + n - 1) : IsDigit(At(s, i))

\* the number parse_digits reads there
NumAt(s, p, n) == ToNat(SubSeq(s, p, p + n - 1))

IsLeap(y) == (y % 4 = 0 /\ y % 100 # 0) \/ y % 400 = 0

DaysInMonth(y, m) ==
    IF m = 2 THEN (IF IsLeap(y) THEN 29 ELSE 28)
    ELSE IF m \in {4, 6, 9, 11} THEN 30 ELSE 31

\* days before January 1st of year y >= 1
DaysBeforeYear(y) ==
    (y - 1) * 365 + (y - 1) \div 4 - (y - 1) \div 100 + (y - 1) \div 400

RECURSIVE DaysBeforeMonth(_, _)
DaysBeforeMonth(y, m) ==
    IF m = 1 THEN 0 ELSE DaysBeforeMonth(y, m - 1) + DaysInMonth(y, m - 1)

\* the ordinal of a day, 1 for 0001-01-01
YmdToOrd(y, m, d) == DaysBeforeYear(y) + DaysBeforeMonth(y, m) + d

\* 0 for Monday
Weekday(y, m, d) == (YmdToOrd(y, m, d) + 6) % 7

\* the ordinal of the Monday that starts ISO week 1 of year y
IsoWeek1Monday(y) ==
    LET first_day     == YmdToOrd(y, 1, 1)
        first_weekday == (first_day + 6) % 7
        week1_monday  == first_day - first_weekday
    IN  IF first_weekday > 3 THEN week1_monday + 7 ELSE week1_monday

\* the day of ordinal o, which lies in year y - 1, y or y + 1
OrdToYmd(o, y) ==
    LET year  == CHOOSE c \in {y - 1, y, y + 1} :
                     /\ c >= 1
                     /\ DaysBeforeYear(c) < o
                     /\ o <= DaysBeforeYear(c + 1)
        n     == o - DaysBeforeYear(year)
        month == CHOOSE m \in 1..12 :
                     /\ DaysBeforeMonth(year, m) < n
                     /\ n <= DaysBeforeMonth(year, m) + DaysInMonth(year, m)
    IN  [ok |-> TRUE, year |-> year, month |-> month,
         day |-> n - DaysBeforeMonth(year, month)]

NoDate == [ok |-> FALSE, year |-> 0, month |-> 0, day |-> 0]

\* iso_to_ymd: day d of ISO week w of year y; no year 0 has such a day
IsoToYmd(y, w, d) ==
    IF y < 1 THEN NoDate
    ELSE IF ~(w \in 1..52
                \/ (w = 53 /\ (Weekday(y, 1, 1) = 3
                                 \/ (Weekday(y, 1, 1) = 2 /\ IsLeap(y)))))
    THEN NoDate
    ELSE IF d \notin 1..7 THEN NoDate
    ELSE OrdToYmd(IsoWeek1Monday(y) + (w - 1) * 7 + d - 1, y)

\* _find_isoformat_datetime_separator: the length of the date part, -1 when
\* there is none
FindSeparator(s) ==
    LET len == Len(s)
        run == {i \in 8..(len + 1) : ~IsDigit(At(s, i))}
        idx == (CHOOSE i \in run : \A j \in run : i <= j) - 1
    IN  IF len = 7 THEN 7
        ELSE IF At(s, 5) = "-"
        THEN IF At(s, 6) = "W"
             THEN IF len < 8 THEN -1
                  ELSE IF len > 8 /\ At(s, 9) = "-"
                  THEN IF len = 9 THEN -1
                       ELSE IF len > 10 /\ IsDigit(At(s, 11)) THEN 8
                       ELSE 10
                  ELSE 8
             ELSE 10
        ELSE IF At(s, 5) = "W"
        THEN IF len < 7 THEN 7
             ELSE IF idx < 9 THEN idx
             ELSE IF idx % 2 = 0 THEN 7
             ELSE 8
        ELSE 8

\* parse_isoformat_date on the first n characters of s: [ok, year, month, day]
ParseDate(s, n) ==
    LET sep == At(s, 5) = "-"
        p   == IF sep THEN 6 ELSE 5
        q   == p + 3
        r   == IF sep THEN q + 1 ELSE q
        m   == p + 2
        d   == IF sep THEN m + 1 ELSE m
    IN  IF ~DigitsAt(s, 1, 4) THEN NoDate
        ELSE IF At(s, p) = "W"
        THEN IF ~DigitsAt(s, p + 1, 2) THEN NoDate
             ELSE IF q - 1 < n
             THEN IF sep /\ At(s, q) # "-" THEN NoDate
                  ELSE IF ~DigitsAt(s, r, 1) THEN NoDate
                  ELSE IsoToYmd(NumAt(s, 1, 4), NumAt(s, p + 1, 2), NumAt(s, r, 1))
             ELSE IsoToYmd(NumAt(s, 1, 4), NumAt(s, p + 1, 2), 1)
        ELSE IF ~DigitsAt(s, p, 2) THEN NoDate
        ELSE IF sep /\ At(s, m) # "-" THEN NoDate
        ELSE IF ~DigitsAt(s, d, 2) THEN NoDate
        ELSE [ok |-> TRUE, year |-> NumAt(s, 1, 4), month |-> NumAt(s, p, 2),
              day |-> NumAt(s, d, 2)]

\* what parse_hh_mm_ss_ff returns: rv 0 at the end of the string, 1 with
\* characters left, negative on a malformed field
Clock(rv, vals, us) ==
    [rv |-> rv, hour |-> vals[1], minute |-> vals[2], second |-> vals[3],
     microsecond |-> us]

\* the digits after the decimal mark, from p on: six of them count, more
\* digits are skipped
ClockFraction(s, n, p, vals) ==
    LET remains  == n + 1 - p
        to_parse == IF remains >= 6 THEN 6 ELSE remains
        scale    == <<100000, 10000, 1000, 100, 10, 1>>
        stops    == {i \in (p + to_parse)..(Len(s) + 1) : ~IsDigit(At(s, i))}
        stop     == CHOOSE i \in stops : \A j \in stops : i <= j
    IN  IF ~DigitsAt(s, p, to_parse) THEN Clock(-3, <<0, 0, 0>>, 0)
        ELSE Clock(IF At(s, stop) # "" THEN 1 ELSE 0, vals,
                   NumAt(s, p, to_parse) * scale[to_parse])

RECURSIVE ClockFields(_, _, _, _, _, _)
\* the loop over hour, minute and second: field i (from 0) starts at p;
\* sep is whether a colon followed the hour
ClockFields(s, n, i, p, sep, vals) ==
    IF i = 3 THEN ClockFraction(s, n, p, vals)
    ELSE IF ~DigitsAt(s, p, 2) THEN Clock(-3, <<0, 0, 0>>, 0)
    ELSE LET c  == At(s, p + 2)
             q  == p + 3
             hs == IF i = 0 THEN c = ":" ELSE sep
             vs == [vals EXCEPT ![i + 1] = NumAt(s, p, 2)]
         IN  IF q > n THEN Clock(IF c # "" THEN 1 ELSE 0, vs, 0)
             ELSE IF hs /\ c = ":" THEN ClockFields(s, n, i + 1, q, hs, vs)
             ELSE IF c \in {".", ","} THEN ClockFraction(s, n, q, vs)
             ELSE IF ~hs THEN ClockFields(s, n, i + 1, q - 1, hs, vs)
             ELSE Clock(-4, <<0, 0, 0>>, 0)

\* parse_hh_mm_ss_ff on the first n characters of s
ParseClock(s, n) == ClockFields(s, n, 0, 1, TRUE, <<0, 0, 0>>)

\* position of the first Z, + or - of s, Len(s) + 1 when it has none
SignPos(s) ==
    LET P == {i \in 1..Len(s) : SubSeq(s, i, i) \in {"Z", "+", "-"}}
    IN  IF P = {} THEN Len(s) + 1 ELSE CHOOSE i \in P : \A j \in P : i <= j

NoTime ==
    [ok |-> FALSE, hour |-> 0, minute |-> 0, second |-> 0, microsecond |-> 0,
     aware |-> FALSE, utcoffset |-> 0, utcoffset_us |-> 0]

\* the offset after the sign at position sp of s, in seconds and
\* microseconds: [ok, seconds, microseconds]
ParseOffset(s, sp) ==
    LET tz   == SubSeq(s, sp + 1, Len(s))
        sign == IF At(s, sp) = "-" THEN -1 ELSE 1
        offset(off, secs) ==
            IF off.rv # 0
            THEN [ok |-> FALSE, seconds |-> 0, microseconds |-> 0]
            ELSE [ok |-> TRUE, seconds |-> secs,
                  \* an offset of no whole second is UTC
                  microseconds |-> IF secs = 0 THEN 0
                                   ELSE sign * off.microsecond]
        parsed(off) ==
            offset(off,
                   sign * (off.hour * 3600 + off.minute * 60 + off.second))
    IN  parsed(ParseClock(tz, Len(tz)))

\* parse_isoformat_time on s, the text after the separator
ParseTime(s) ==
    LET sp == SignPos(s)
        time(clk, aware, secs, us) ==
            [ok |-> TRUE, hour |-> clk.hour, minute |-> clk.minute,
             second |-> clk.second, microsecond |-> clk.microsecond,
             aware |-> aware, utcoffset |-> secs, utcoffset_us |-> us]
        parsed(clk, off) ==
            IF clk.rv < 0 THEN NoTime
            ELSE IF sp = Len(s) + 1
            THEN IF clk.rv = 1 THEN NoTime ELSE time(clk, FALSE, 0, 0)
            ELSE IF At(s, sp) = "Z"
            THEN IF sp # Len(s) THEN NoTime ELSE time(clk, TRUE, 0, 0)
            ELSE IF ~off.ok THEN NoTime
            ELSE time(clk, TRUE, off.seconds, off.microseconds)
    IN  parsed(ParseClock(s, sp - 1), ParseOffset(s, sp))

\* a datetime; utcoffset (seconds) and utcoffset_us (microseconds, of the
\* same sign) are the offset of an aware one
DateTime(y, mo, d, h, mi, s, us, aware, off, off_us) ==
    [t |-> "datetime", year |-> y, month |-> mo, day |-> d,
     hour |-> h, minute |-> mi, second |-> s, microsecond |-> us,
     aware |-> aware, utcoffset |-> off, utcoffset_us |-> off_us]

FromIsoFormat(s) ==
    LET n == FindSeparator(s)
        parsed(d, tm) ==
            IF Len(s) < 7 \/ n < 0 THEN Err("ValueError")
            ELSE IF ~d.ok \/ ~tm.ok THEN Err("ValueError")
            \* timezone(): the offset lies strictly within a day
            ELSE IF tm.utcoffset >= 86400 \/ tm.utcoffset <= -86400
            THEN Err("ValueError")
            \* datetime(): the fields lie in their ranges
            ELSE IF ~(d.year \in 1..9999 /\ d.month \in 1..12
                        /\ d.day \in 1..DaysInMonth(d.year, d.month))
            THEN Err("ValueError")
            ELSE IF ~(tm.hour <= 23 /\ tm.minute <= 59 /\ tm.second <= 59)
            THEN Err("ValueError")
            ELSE DateTime(d.year, d.month, d.day, tm.hour, tm.minute,
                          tm.second, tm.microsecond, tm.aware, tm.utcoffset,
                          tm.utcoffset_us)
    IN  parsed(ParseDate(s, n),
               IF Len(s) > n THEN ParseTime(SubSeq(s, n + 2, Len(s)))
               ELSE [NoTime EXCEPT !.ok = TRUE])

----------------------------------------------------------------------------
(* str(), repr(), iteration and json.dumps *)

RECURSIVE NatToStr(_)
NatToStr(i) ==
    IF i < 10 THEN Digits[i + 1] ELSE NatToStr(i \div 10) \o Digits[(i % 10) + 1]

\* str(i)
IntToStr(i) == IF i < 0 THEN "-" \o NatToStr(-i) ELSE NatToStr(i)

\* the keys of a dict, in insertion order
KeySeq(x) == [i \in 1..Len(x.keys) |-> JStr(x.keys[i])]

\* the character c as repr writes it between the quotes q
ReprChar(c, q) ==
    CASE c = q    -> "\\" \o q
      [] c = "\\" -> "\\\\"
      [] c = "\n" -> "\\n"
      [] c = "\t" -> "\\t"
      [] c = "\r" -> "\\r"
      [] c = "\f" -> "\\x0c"
      [] OTHER    -> c

RECURSIVE ReprChars(_, _)
\* the characters of s as repr writes them between the quotes q
ReprChars(s, q) ==
    IF s = "" THEN ""
    ELSE IF Len(s) = 1 THEN ReprChar(s, q)
    ELSE LET m == Len(s) \div 2
         IN  ReprChars(SubSeq(s, 1, m), q) \o ReprChars(SubSeq(s, m + 1, Len(s)), q)

RECURSIVE Repr(_)
RECURSIVE ReprItems(_)
RECURSIVE ReprPairs(_, _)
\* repr(x)
Repr(x) ==
    CASE x.t = "str"  ->
             \* double quotes when the string has a single quote and no
             \* double quote
             LET q == IF Contains(x.str, "'") /\ ~Contains(x.str, "\"")
                      THEN "\"" ELSE "'"
             IN  q \o ReprChars(x.str, q) \o q
      [] x.t = "null" -> "None"
      [] x.t = "num"  -> IntToStr(x.num)
      [] x.t = "bool" -> IF x.bool THEN "True" ELSE "False"
      [] x.t = "list" -> "[" \o ReprItems(x.items) \o "]"
      [] x.t = "obj"  -> "{" \o ReprPairs(x.fields, x.keys) \o "}"

ReprItems(q) ==
    IF q = <<>> THEN ""
    ELSE Repr(Head(q)) \o (IF Len(q) > 1 THEN ", " ELSE "") \o ReprItems(Tail(q))

ReprPairs(f, ks) ==
    IF ks = <<>> THEN ""
    ELSE Repr(JStr(Head(ks))) \o ": " \o Repr(f[Head(ks)])
            \o (IF Len(ks) > 1 THEN ", " ELSE "") \o ReprPairs(f, Tail(ks))

\* str(x), as an f-string interpolates it
Format(x) == IF x.t = "str" THEN x.str ELSE Repr(x)

\* the list `for a in x` runs over
Iterate(x) ==
    CASE x.t = "list" -> x
      [] x.t = "str"  -> JList([i \in 1..Len(x.str) |-> JStr(SubSeq(x.str, i, i))])
      [] x.t = "obj"  -> JList(KeySeq(x))
      [] OTHER        -> Err("TypeError")

HexDigits ==
    <<"0", "1", "2", "3", "4", "5", "6", "7", "8", "9",
      "a", "b", "c", "d", "e", "f">>

\* the characters U+00A1 to U+00AC and U+00AE to U+00FF, in order
Latin1Low == "¡¢£¤¥¦§¨©ª«¬"
Latin1High == "®¯°±²³´µ¶·¸¹º»¼½¾¿ÀÁÂÃÄÅÆÇÈÉÊËÌÍÎÏÐÑÒÓÔÕÖ×ØÙÚÛÜÝÞßàáâãäåæçèéêëìíîïðñòóôõö÷øùúûüýþÿ"

\* position of the character c in s, 0 when s does not have it
IndexOf(s, c) ==
    LET P == {i \in 1..Len(s) : SubSeq(s, i, i) = c}
    IN  IF P = {} THEN 0 ELSE CHOOSE i \in P : TRUE

\* the code point of a Latin-1 character, 0 for any other
Latin1Code(c) ==
    IF IndexOf(Latin1Low, c) > 0 THEN 160 + IndexOf(Latin1Low, c)
    ELSE IF IndexOf(Latin1High, c) > 0 THEN 173 + IndexOf(Latin1High, c)
    ELSE 0

\* \u00XX
Escape4(code) ==
    "\\u00" \o HexDigits[(code \div 16) + 1] \o HexDigits[(code % 16) + 1]

\* one character as json.dumps writes it (ensure_ascii): the quote, the
\* backslash, control characters and every character beyond ASCII escaped
EscapeChar(c) ==
    CASE c = "\"" -> "\\\""
      [] c = "\\" -> "\\\\"
      [] c = "\n" -> "\\n"
      [] c = "\t" -> "\\t"
      [] c = "\r" -> "\\r"
      [] c = "\f" -> "\\f"
      [] OTHER    -> IF Latin1Code(c) > 0 THEN Escape4(Latin1Code(c)) ELSE c

RECURSIVE Escape(_)
\* json.dumps escaping of the characters of a string
Escape(s) ==
    IF s = "" THEN ""
    ELSE IF Len(s) = 1 THEN EscapeChar(s)
    ELSE LET m == Len(s) \div 2
         IN  Escape(SubSeq(s, 1, m)) \o Escape(SubSeq(s, m + 1, Len(s)))

RECURSIVE Dumps(_)
RECURSIVE DumpsItems(_)
RECURSIVE DumpsPairs(_, _)
\* json.dumps(x)
Dumps(x) ==
    CASE x.t = "null" -> "null"
      [] x.t = "str"  -> "\"" \o Escape(x.str) \o "\""
      [] x.t = "num"  -> IntToStr(x.num)
      [] x.t = "bool" -> IF x.bool THEN "true" ELSE "false"
      [] x.t = "list" -> "[" \o DumpsItems(x.items) \o "]"
      [] x.t = "obj"  -> "{" \o DumpsPairs(x.fields, KeySeq(x)) \o "}"

DumpsItems(q) ==
    IF q = <<>> THEN ""
    ELSE Dumps(Head(q)) \o (IF Len(q) > 1 THEN ", " ELSE "") \o DumpsItems(Tail(q))

DumpsPairs(f, ks) ==
    IF ks = <<>> THEN ""
    ELSE Dumps(Head(ks)) \o ": " \o Dumps(f[Head(ks).str])
            \o (IF Len(ks) > 1 THEN ", " ELSE "") \o DumpsPairs(f, Tail(ks))

RECURSIVE Emails(_)
\* [a.get('email', '') for a in items if a.get('email')]
Emails(items) ==
    IF items = <<>> THEN JList(<<>>)
    ELSE LET a    == Head(items)
             cond == Get(a, "email", JNull)
             rest == Emails(Tail(items))
         IN  IF IsErr(cond) THEN cond
             ELSE IF IsErr(rest) THEN rest
             ELSE IF Truthy(cond)
             THEN JList(<<Get(a, "email", JStr(""))>> \o rest.items)
             ELSE rest

----------------------------------------------------------------------------
(* Lines 70-88: one record to the parameters of the upsert statement *)

FallbackDate == "2026-01-01"

\* TimeText with the start's suffix on the end as well
TimeTextAtMidnight(x, suffix) ==
    LET dt == Get(x, "dateTime", JNull)
    IN  IF IsErr(dt) THEN dt
        ELSE Or(dt, JStr(Format(Get(x, "date", JStr(FallbackDate)))
                           \o "T00:00:00+00:00"))

\* lines 78 and 79: x.get('dateTime') or f"{x.get('date', '2026-01-01')}<suffix>"
TimeText(x, suffix) ==
    LET dt == Get(x, "dateTime", JNull)
    IN  IF IsErr(dt) THEN dt
        ELSE Or(dt, JStr(Format(Get(x, "date", JStr(FallbackDate))) \o suffix))

\* lines 82 and 83: datetime.fromisoformat(v.replace('Z', '+00:00')); only a
\* str has this .replace
ParseTimeText(v) ==
    IF v.t # "str" THEN Err("AttributeError")
    ELSE FromIsoFormat(ReplaceZ(v.str))

\* line 85, 87, 88: (event.get(k) or '')[:500] or None
OptionalText(event, k) ==
    LET s == Slice(Or(Get(event, k, JNull), JStr("")), MaxFieldLen)
    IN  IF IsErr(s) THEN s ELSE Or(s, JNull)

\* line 86
Attendees(event) ==
    LET items == Iterate(Get(event, "attendees", JList(<<>>)))
    IN  IF IsErr(items) THEN items
        ELSE LET es == Emails(items.items)
             IN  IF IsErr(es) THEN es ELSE JStr(Dumps(es))

\* EventId with the default of line 109
EventIdUnknown(event) == Get(event, "id", JStr("unknown"))

\* line 70
EventId(event) == Get(event, "id", JStr(""))

\* line 71
Summary(event) ==
    Slice(Or(Get(event, "summary", JStr("Untitled")), JStr("Untitled")),
          MaxFieldLen)

\* IsAllDay by the value of dateTime instead of the key
IsAllDayByValue(start) == ~Truthy(Get(start, "dateTime", JNull))

\* line 76: 'dateTime' not in start
IsAllDay(start) == ~In("dateTime", start)

\* The body of the try block up to the statement: the parameter tuple of
\* line 105, or the first exception raised.
Normalize(event) ==
    IF event.t # "obj" THEN Err("AttributeError")
    ELSE
    LET google_event_id == EventId(event)
        summary      == Summary(event)
        description  == Get(event, "description", JNull)
        start        == Get(event, "start", JObj(<<>>))
        end          == Get(event, "end", JObj(<<>>))
        is_all_day   == IsAllDay(start)
        start_time   == TimeText(start, "T00:00:00+00:00")
        end_time     == TimeText(end, "T23:59:59+00:00")
        start_dt     == ParseTimeText(start_time)
        end_dt       == ParseTimeText(end_time)
        location     == OptionalText(event, "location")
        attendees    == Attendees(event)
        hangout_link == OptionalText(event, "hangoutLink")
        html_link    == OptionalText(event, "htmlLink")
    IN  IF IsErr(summary) THEN summary
        ELSE IF ~Iterable(start) THEN Err("TypeError")
        ELSE IF IsErr(start_time) THEN start_time
        ELSE IF IsErr(end_time) THEN end_time
        ELSE IF IsErr(start_dt) THEN start_dt
        ELSE IF IsErr(end_dt) THEN end_dt
        ELSE IF IsErr(location) THEN location
        ELSE IF IsErr(attendees) THEN attendees
        ELSE IF IsErr(hangout_link) THEN hangout_link
        ELSE IF IsErr(html_link) THEN html_link
        ELSE [t |-> "params",
              googleEventId |-> google_event_id,
              summary       |-> summary,
              description   |-> description,
              startTime     |-> start_dt,
              endTime       |-> end_dt,
              isAllDay      |-> is_all_day,
              location      |-> location,
              attendees     |-> attendees,
              hangoutLink   |-> hangout_link,
              htmlLink      |-> html_link]

----------------------------------------------------------------------------
(* The statement of lines 90-105 and the table it writes *)

\* the connector turns str, int, None, bool and datetime parameters into SQL
\* literals and raises on a list or a dict
Convertible(x) == x.t \in {"null", "str", "num", "bool", "datetime"}

ParamsConvertible(p) ==
    /\ Convertible(p.googleEventId) /\ Convertible(p.summary)
    /\ Convertible(p.description) /\ Convertible(p.location)
    /\ Convertible(p.hangoutLink) /\ Convertible(p.htmlLink)

\* what a text column holds of a parameter: a number arrives as its
\* decimal text
ColumnText(x) ==
    CASE x.t = "num"  -> JStr(IntToStr(x.num))
      [] x.t = "bool" -> JStr(IF x.bool THEN "1" ELSE "0")
      [] OTHER        -> x

\* the key column takes the parameter: NULL only where the column is
\* declared to take it
KeyAccepted(k, nullable) == k.t # "null" \/ nullable

\* InsertedRow with the summary in the place of the id
InsertedRowKeyedBySummary(p, ts, n) ==
    [rowNo         |-> n,
     googleEventId |-> p.summary,
     summary       |-> p.summary,
     description   |-> ColumnText(p.description),
     startTime     |-> p.startTime,
     endTime       |-> p.endTime,
     isAllDay      |-> p.isAllDay,
     location      |-> p.location,
     attendees     |-> p.attendees,
     hangoutLink   |-> p.hangoutLink,
     htmlLink      |-> p.htmlLink,
     syncedAt      |-> ts]

\* VALUES (%s, ..., NOW()); rows that are equal in every column are still
\* two rows: n tells apart those the key does not, the rows under NULL
InsertedRow(p, ts, n) ==
    [rowNo         |-> n,
     googleEventId |-> ColumnText(p.googleEventId),
     summary       |-> p.summary,
     description   |-> ColumnText(p.description),
     startTime     |-> p.startTime,
     endTime       |-> p.endTime,
     isAllDay      |-> p.isAllDay,
     location      |-> p.location,
     attendees     |-> p.attendees,
     hangoutLink   |-> p.hangoutLink,
     htmlLink      |-> p.htmlLink,
     syncedAt      |-> ts]

\* UpdatedRow with startTime and endTime taking each other's value
UpdatedRowSwappingTimes(r, p, ts) ==
    [r EXCEPT !.summary     = p.summary,
              !.description = ColumnText(p.description),
              !.startTime   = p.endTime,
              !.endTime     = p.startTime,
              !.isAllDay    = p.isAllDay,
              !.location    = p.location,
              !.attendees   = p.attendees,
              !.hangoutLink = p.hangoutLink,
              !.htmlLink    = p.htmlLink,
              !.syncedAt    = ts]

\* ON DUPLICATE KEY UPDATE col = VALUES(col), ..., syncedAt = NOW()
UpdatedRow(r, p, ts) ==
    [r EXCEPT !.summary     = p.summary,
              !.description = ColumnText(p.description),
              !.startTime   = p.startTime,
              !.endTime     = p.endTime,
              !.isAllDay    = p.isAllDay,
              !.location    = p.location,
              !.attendees   = p.attendees,
              !.hangoutLink = p.hangoutLink,
              !.htmlLink    = p.htmlLink,
              !.syncedAt    = ts]

\* INSERT ... ON DUPLICATE KEY UPDATE under the unique key on googleEventId,
\* for a key the column accepts: the row to insert is a duplicate when its
\* key is not NULL and a row of the table has the same key, character by
\* character; a NULL key is a duplicate of nothing
Upsert(table, p, ts) ==
    LET nulls == {r \in table : r.googleEventId = JNull}
        new == InsertedRow(p, ts, 0)
        row == IF new.googleEventId = JNull
               THEN InsertedRow(p, ts, Cardinality(nulls) + 1)
               ELSE new
        key == row.googleEventId
    IN  IF key # JNull /\ \E r \in table : r.googleEventId = key
        THEN {IF r.googleEventId = key THEN UpdatedRow(r, p, ts) ELSE r :
                  r \in table}
        ELSE table \cup {row}

----------------------------------------------------------------------------
(* Inputs *)

RECURSIVE Repeat(_, _)
\* s * k
Repeat(s, k) ==
    IF k = 0 THEN ""
    ELSE LET h == Repeat(s, k \div 2)
         IN  h \o h \o (IF k % 2 = 1 THEN s ELSE "")

LongText == Repeat("x", MaxFieldLen + 1)

\* a timed event with every field, its times as the calendar API writes
\* them, one attendee without an email
EvTimed ==
    JObj(<<<<"id", JStr("e1")>>, <<"summary", JStr("Standup")>>,
           <<"description", JStr("daily")>>,
           <<"start", JObj(<<<<"dateTime", JStr("2025-03-01T10:00:00.000Z")>>>>)>>,
           <<"end", JObj(<<<<"dateTime", JStr("2025-03-01T11:00:00-05:00")>>>>)>>,
           <<"location", JStr("Room 1")>>,
           <<"attendees",
             JList(<<JObj(<<<<"email", JStr("a@x.io")>>>>),
                     JObj(<<<<"displayName", JStr("B")>>>>)>>)>>,
           <<"hangoutLink", JStr("https://meet/x")>>,
           <<"htmlLink", JStr("https://cal/x")>>>>)

\* the all-day event of the spec's example
EvAllDay ==
    JObj(<<<<"id", JStr("e1")>>,
           <<"start", JObj(<<<<"date", JStr("2025-03-01")>>>>)>>,
           <<"end", JObj(<<<<"date", JStr("2025-03-01")>>>>)>>>>)

\* no id, no summary, no dates
EvEmpty == JObj(<<>>)

\* no id; a location
EvNoId ==
    JObj(<<<<"summary", JStr("Lunch")>>,
           <<"start", JObj(<<<<"dateTime", JStr("2025-03-02T09:30:00+05:30")>>>>)>>,
           <<"end", JObj(<<<<"date", JStr("2025-03-02")>>>>)>>,
           <<"location", JStr("Cafe")>>>>)

\* an id that is null
EvNullId == JObj(<<<<"id", JNull>>, <<"summary", JStr("Null")>>>>)

\* an id that is a number
EvNumberId == JObj(<<<<"id", JNum(7)>>>>)

\* a summary longer than the column
EvLongSummary == JObj(<<<<"id", JStr("e1")>>, <<"summary", JStr(LongText)>>>>)

\* a dateTime key that is present and empty, or null
EvEmptyDateTime ==
    JObj(<<<<"id", JStr("e1")>>,
           <<"start", JObj(<<<<"dateTime", JStr("")>>,
                             <<"date", JStr("2025-03-02")>>>>)>>,
           <<"end", JObj(<<<<"dateTime", JNull>>>>)>>>>)

\* a malformed date string
EvBadDate ==
    JObj(<<<<"id", JStr("e1")>>,
           <<"start", JObj(<<<<"dateTime", JStr("not-a-date")>>>>)>>>>)

\* a start that is not an object
EvStartNull == JObj(<<<<"id", JStr("e1")>>, <<"start", JNull>>>>)

\* a description the connector cannot convert
EvListDescription ==
    JObj(<<<<"id", JStr("e1")>>, <<"description", JList(<<JStr("a")>>)>>>>)

\* attendees whose emails json.dumps has to escape or to write key by key
EvAttendees ==
    JObj(<<<<"id", JStr("e1")>>,
           <<"attendees",
             JList(<<JObj(<<<<"email", JStr("café@x.io")>>>>),
                     JObj(<<<<"email", JStr("")>>>>),
                     JObj(<<<<"email", JObj(<<<<"b", JNum(1)>>, <<"a", JNum(2)>>>>)>>>>),
                     JObj(<<<<"email", JStr("a\"b\nc")>>>>)>>)>>>>)

\* a record that is not an object
EvNumber == JNum(5)

Events == {EvTimed, EvAllDay, EvEmpty, EvNoId, EvBadDate, EvNumber}

Batches == UNION {[1..k -> Events] : k \in 0..MaxBatch}

\* what json.load can return
Docs ==
    {JObj(<<<<"result", JList(b)>>>>) : b \in Batches}
        \cup {JObj(<<>>), JObj(<<<<"result", JStr("e1")>>>>), JList(<<>>)}

OneEvent == JObj(<<<<"result", JList(<<EvTimed>>)>>>>)

\* One run's environment: argv, the input file, DATABASE_URL, the server.
GoodInput(d) ==
    [hasPath |-> TRUE, readable |-> TRUE, validJson |-> TRUE, data |-> d,
     envUrl |-> TRUE, dotEnvUrl |-> FALSE, dbUp |-> TRUE]

RunInputs ==
    {GoodInput(d) : d \in Docs}
        \cup {[GoodInput(OneEvent) EXCEPT !.envUrl = FALSE, !.dotEnvUrl = TRUE],
              [GoodInput(OneEvent) EXCEPT !.hasPath = FALSE],
              [GoodInput(OneEvent) EXCEPT !.readable = FALSE],
              [GoodInput(OneEvent) EXCEPT !.validJson = FALSE],
              [GoodInput(OneEvent) EXCEPT !.envUrl = FALSE],
              [GoodInput(OneEvent) EXCEPT !.dbUp = FALSE]}

----------------------------------------------------------------------------
(* Lines 15-63: what stops main before the loop, "" when nothing does *)

\* the records of the runs over a single record, for the properties of the
\* normalization alone
Absent == [t |-> "absent"]

\* the object of the members whose value is not Absent
ObjOf(pairs) == JObj(SelectSeq(pairs, LAMBDA m : m[2].t # "absent"))

Date(d) == JObj(<<<<"date", d>>>>)

Timed(dt) == JObj(<<<<"dateTime", dt>>>>)

StartForms ==
    {Absent, JNull, JStr("2025-03-01"), JObj(<<>>),
     Date(JStr("2025-03-01")), Date(JStr("2025-02-30")), Date(JNull),
     Date(JStr("20250301")), Date(JNum(20250301)), Date(JStr("2025-W09-6")),
     Date(JList(<<JStr("a")>>)), Date(JStr("2025-03-01T10:00:00.123456")),
     Timed(JStr("2025-03-01T10:00:00Z")),
     Timed(JStr("2025-03-01T10:00:00.123456Z")),
     Timed(JStr("2025-03-01 10:00")),
     Timed(JStr("2025-03-01")),
     Timed(JNum(5)), Timed(JNum(0)), Timed(JBool(TRUE)),
     JObj(<<<<"dateTime", JNum(0)>>, <<"date", JStr("2025-03-01")>>>>),
     JObj(<<<<"dateTime", JBool(FALSE)>>, <<"date", JStr("2025-03-06")>>>>),
     JObj(<<<<"date", JStr("2025-03-05")>>, <<"dateTime", JList(<<>>)>>>>),
     Timed(JObj(<<>>)),
     JObj(<<<<"dateTime", JStr("2025-03-01T10:00:00-05:00")>>,
            <<"date", JStr("2025-03-04")>>>>),
     JObj(<<<<"dateTime", JStr("")>>, <<"date", JStr("2025-03-02")>>>>),
     Timed(JNull),
     Timed(JStr("not-a-date"))}

EndForms ==
    {Absent, JNum(7), Timed(JNull), Timed(JBool(FALSE)), Timed(JList(<<>>)),
     JObj(<<<<"dateTime", JNum(0)>>, <<"date", JStr("2025-03-01")>>>>),
     JObj(<<<<"date", JStr("2025-03-07")>>, <<"dateTime", JObj(<<>>)>>>>),
     Date(JStr("2025-03-01")),
     Timed(JStr("2025-03-01T11:00:00Z")),
     Timed(JStr("2025-03-01T11:00:00.5+0530")),
     JObj(<<<<"dateTime", JStr("")>>, <<"date", JStr("2025-03-03")>>>>),
     Timed(JStr("2025-03-01T25:00:00Z"))}

NormEvents ==
    {ObjOf(<<<<"id", i>>, <<"start", s>>, <<"end", e>>>>) :
         i \in {Absent, JStr("e1")}, s \in StartForms, e \in EndForms}
        \cup {EvTimed, EvLongSummary, EvEmptyDateTime, EvStartNull,
              EvListDescription, EvAttendees, EvNullId, EvNumberId, EvNumber}

\* FatalReason with a failed connect going unnoticed
FatalReasonIgnoringConnect(inp) ==
    IF ~inp.hasPath THEN "usage"
    ELSE IF ~inp.readable THEN "OSError"
    ELSE IF ~inp.validJson THEN "JSONDecodeError"
    ELSE IF inp.data.t # "obj" THEN "AttributeError"
    ELSE IF Get(inp.data, "result", JList(<<>>)).t # "list"
    THEN "not an array"
    ELSE IF ~(inp.envUrl \/ inp.dotEnvUrl) THEN "no url"
    ELSE ""

FatalReason(inp) ==
    IF ~inp.hasPath THEN "usage"                              \* 15-17
    ELSE IF ~inp.readable THEN "OSError"                      \* 22
    ELSE IF ~inp.validJson THEN "JSONDecodeError"             \* 23
    ELSE IF inp.data.t # "obj" THEN "AttributeError"          \* 25
    ELSE IF Get(inp.data, "result", JList(<<>>)).t # "list"
    THEN "not an array"                                       \* 26-28
    ELSE IF ~(inp.envUrl \/ inp.dotEnvUrl) THEN "no url"      \* 33-46
    ELSE IF ~inp.dbUp THEN "connect"                          \* 62
    ELSE ""

----------------------------------------------------------------------------
(* The run *)

VARIABLES
    input,      \* the environment of the current (or last) run; of its
                \* document only the type of `result` is kept ("list", ...)
    pc,         \* where main is: "idle" (no process), "loop", "committed",
                \* "closed", "done", "fatal" (stopped before the loop),
                \* "crashed" (uncaught exception in the loop), "aborted"
                \* (uncaught exception of the commit)
    conn,       \* the connection: "none", "open", "closed", "lost"
    pending,    \* the records of `events` the loop has yet to take
    found,      \* len(events), line 30
    event,      \* the loop variable of line 68
    params,     \* what the try block made of it: the parameter tuple of
                \* line 105, or the exception raised before the statement
    outcome,    \* how the last iteration ended: "none" (there was none),
                \* "synced", "error" (raised before the statement),
                \* "rejected" (the statement raised), "crash"
    synced,     \* line 65
    errors,     \* line 66
    raised,     \* records of this run whose try block raised
    execs,      \* upsert statements this run has applied
    commits,    \* commits this run has issued, failed ones included
    reported,   \* the summary line: <<synced, errors>>, <<>> before it
    db,         \* committed rows of calendar_events
    view,       \* rows as the connection's transaction sees them
    dbAtStart,  \* db when the run started
    nullableKey, \* the table's googleEventId column takes NULL
    now         \* the database clock

vars ==
    <<input, pc, conn, pending, found, event, params, outcome, synced, errors,
      raised, execs, commits, reported, db, view, dbAtStart, nullableKey, now>>

\* records the loop has taken
idx == found - Len(pending)

\* main has returned or an exit or exception has left it
Ended == pc \in {"done", "fatal", "crashed", "aborted"}

\* line 25
Result(data) == Get(data, "result", JList(<<>>))

\* what the state keeps of a run's input
Kept(inp) ==
    [inp EXCEPT !.data = IF inp.data.t = "obj" THEN Result(inp.data).t
                         ELSE "no result"]

Init ==
    /\ input = Kept(GoodInput(JObj(<<>>)))
    /\ pc = "idle"
    /\ conn = "none"
    /\ pending = <<>>
    /\ found = 0
    /\ event = JNull
    /\ params = JNull
    /\ outcome = "none"
    /\ synced = 0
    /\ errors = 0
    /\ raised = 0
    /\ execs = 0
    /\ commits = 0
    /\ reported = <<>>
    /\ db = {}
    /\ view = {}
    /\ dbAtStart = {}
    /\ nullableKey \in BOOLEAN
    /\ now = 0

\* Lines 15-66: a new process starts main on inp.
StartRun(inp) ==
    /\ pc = "idle"
    /\ input' = Kept(inp)
    /\ IF FatalReason(inp) = ""
       THEN /\ pc' = "loop"
            /\ conn' = "open"
            /\ pending' = Result(inp.data).items
            /\ found' = Len(Result(inp.data).items)
       ELSE /\ pc' = "fatal"
            /\ conn' = "none"
            /\ pending' = <<>>
            /\ found' = 0
    /\ event' = JNull
    /\ params' = JNull
    /\ outcome' = "none"
    /\ synced' = 0
    /\ errors' = 0
    /\ raised' = 0
    /\ execs' = 0
    /\ commits' = 0
    /\ reported' = <<>>
    /\ view' = db
    /\ dbAtStart' = db
    /\ UNCHANGED <<db, nullableKey, now>>

\* line 109: the except clause reads event.get('id', 'unknown') itself
HandlerRaises(e) == IsErr(Get(e, "id", JStr("unknown")))

\* cursor.execute of lines 90-105 with parameters p at server time ts, then
\* line 107; the statement raises when the connector cannot convert a
\* parameter, when the key is null and the column does not take NULL, and
\* when the server rejects it for a reason of its own (stmtFails)
Execute(p, stmtFails, ts) ==
    IF stmtFails \/ ~ParamsConvertible(p)
           \/ ~KeyAccepted(p.googleEventId, nullableKey)
    THEN /\ raised' = raised + 1
         /\ errors' = errors + 1
         /\ outcome' = "rejected"
         /\ UNCHANGED <<synced, execs, now, view>>
    ELSE /\ p.googleEventId = JNull
                => Cardinality({r \in view : r.googleEventId = JNull})
                       < MaxNullRows
         /\ view' = Upsert(view, p, ts)
         /\ now' = ts
         /\ execs' = execs + 1
         /\ synced' = synced + 1
         /\ outcome' = "synced"
         /\ UNCHANGED <<errors, raised>>

\* Lines 68-110: one iteration of the loop on the record e, whose try block
\* computes p; the server answers the statement at a time ts of its clock,
\* or fails it.
Iteration(e, p) ==
    /\ event' = e
    /\ params' = p
    /\ IF ~IsErr(p)
       THEN /\ \E stmtFails \in BOOLEAN, ts \in now..MaxNow :
                   Execute(p, stmtFails, ts)
            /\ UNCHANGED <<pc, conn>>
       ELSE /\ raised' = raised + 1
            /\ UNCHANGED <<synced, execs, now>>
            /\ IF HandlerRaises(e)
               THEN \* the exception leaves main; the process exits and
                    \* the server rolls the open transaction back
                    /\ pc' = "crashed"
                    /\ conn' = "lost"
                    /\ outcome' = "crash"
                    /\ view' = db
                    /\ UNCHANGED errors
               ELSE /\ errors' = errors + 1
                    /\ outcome' = "error"
                    /\ UNCHANGED <<pc, conn, view>>

ProcessEvent ==
    /\ pc = "loop"
    /\ pending # <<>>
    /\ pending' = Tail(pending)
    /\ Iteration(Head(pending), Normalize(Head(pending)))
    /\ UNCHANGED <<input, found, commits, reported, db, dbAtStart, nullableKey>>

\* line 112: conn.commit() makes the transaction durable, or (ok = FALSE)
\* raises because the server is gone: nothing catches that, main is left
\* and the transaction is rolled back
Commit(ok) ==
    /\ pc = "loop"
    /\ pending = <<>>
    /\ commits' = commits + 1
    /\ IF ok
       THEN /\ db' = view
            /\ pc' = "committed"
            /\ UNCHANGED <<conn, view>>
       ELSE /\ view' = db
            /\ pc' = "aborted"
            /\ conn' = "lost"
            /\ UNCHANGED db
    /\ UNCHANGED <<input, pending, found, event, params, outcome, synced,
                   errors, raised, execs, reported, dbAtStart, nullableKey,
                   now>>

\* lines 113-114
Close ==
    /\ pc = "committed"
    /\ conn' = "closed"
    /\ pc' = "closed"
    /\ UNCHANGED <<input, pending, found, event, params, outcome, synced,
                   errors, raised, execs, commits, reported, db, view,
                   dbAtStart, nullableKey, now>>

\* line 116
Report ==
    /\ pc = "closed"
    /\ reported' = <<synced, errors>>
    /\ pc' = "done"
    /\ UNCHANGED <<input, conn, pending, found, event, params, outcome, synced,
                   errors, raised, execs, commits, db, view, dbAtStart,
                   nullableKey, now>>

\* The process is gone, with its locals; the table and the clock stay.
Exit ==
    /\ Ended
    /\ input' = Kept(GoodInput(JObj(<<>>)))
    /\ pc' = "idle"
    /\ conn' = "none"
    /\ pending' = <<>>
    /\ found' = 0
    /\ event' = JNull
    /\ params' = JNull
    /\ outcome' = "none"
    /\ synced' = 0
    /\ errors' = 0
    /\ raised' = 0
    /\ execs' = 0
    /\ commits' = 0
    /\ reported' = <<>>
    /\ view' = db
    /\ dbAtStart' = db
    /\ UNCHANGED <<db, nullableKey, now>>

Next ==
    \/ \E inp \in RunInputs : StartRun(inp)
    \/ ProcessEvent
    \/ \E ok \in BOOLEAN : Commit(ok)
    \/ Close
    \/ Report
    \/ Exit

Spec == Init /\ [][Next]_vars

----------------------------------------------------------------------------
(* Runs over records that share an id or have a null one, for the          *)
(* properties of the key                                                   *)

KeyEvents == {EvTimed, EvAllDay, EvNullId, EvNumber}

KeyInputs ==
    {GoodInput(JObj(<<<<"result", JList(b)>>>>)) :
         b \in UNION {[1..k -> KeyEvents] : k \in 0..MaxBatch}}

KeyNext ==
    \/ \E inp \in KeyInputs : StartRun(inp)
    \/ ProcessEvent
    \/ \E ok \in BOOLEAN : Commit(ok)
    \/ Close
    \/ Report
    \/ Exit

KeySpec == Init /\ [][KeyNext]_vars

----------------------------------------------------------------------------
(* One run on an empty table over a single record, for the properties of   *)
(* the normalization alone                                                 *)

NormNext ==
    \/ \E e \in NormEvents : StartRun(GoodInput(JObj(<<<<"result", JList(<<e>>)>>>>)))
    \/ ProcessEvent
    \/ \E ok \in BOOLEAN : Commit(ok)
    \/ Close
    \/ Report

NormSpec == Init /\ [][NormNext]_vars

----------------------------------------------------------------------------
(* Properties *)

RowsOf(table, k) == {r \in table : r.googleEventId = k}

RowOf(table, k) == CHOOSE r \in table : r.googleEventId = k

Keys(table) == {r.googleEventId : r \in table}

\* the fields of a row or of a parameter tuple other than the key and syncedAt
NonKey(r) ==
    [summary |-> r.summary, description |-> r.description,
     startTime |-> r.startTime, endTime |-> r.endTime, isAllDay |-> r.isAllDay,
     location |-> r.location, attendees |-> r.attendees,
     hangoutLink |-> r.hangoutLink, htmlLink |-> r.htmlLink]

UniqueKeys(table) ==
    \A r1, r2 \in table : r1.googleEventId = r2.googleEventId => r1 = r2

\* the key column's value for the record e
KeyOf(e) == ColumnText(EventId(e))

\* the fields other than the key and syncedAt that the statement stores for
\* the parameters p
Stored(p) == NonKey(InsertedRow(p, 0, 0))

\* the record of the last iteration was written to the table, in a
\* transaction that has not been rolled back
Imported == outcome = "synced" /\ pc # "aborted"

\* the row the last iteration wrote
Written == RowOf(view, KeyOf(event))

UniqueNonNullKeys(table) ==
    \A r1, r2 \in table :
        (r1.googleEventId # JNull /\ r1.googleEventId = r2.googleEventId)
            => r1 = r2

(* C1, as stated: the table never holds two rows with the same              *)
(* googleEventId, in its committed content or in the importer's             *)
(* transaction; an id that has just been upserted has exactly one row; and  *)
(* no id the table held when the run started has lost its row.              *)
C1_OneRowPerEventId ==
    /\ UniqueKeys(db)
    /\ UniqueKeys(view)
    /\ Imported => Cardinality(RowsOf(view, KeyOf(event))) = 1
    /\ Keys(dbAtStart) \subseteq Keys(db)
    /\ Keys(dbAtStart) \subseteq Keys(view)

(* C1, amended: the table never holds two rows with the same googleEventId  *)
(* that is not null, in its committed content or in the importer's          *)
(* transaction; an id other than null that has just been upserted has       *)
(* exactly one row; no id the table held when the run started has lost its  *)
(* row; and a null id has a row only where the key column takes NULL.       *)
C1_OneRowPerNonNullEventId ==
    /\ UniqueNonNullKeys(db)
    /\ UniqueNonNullKeys(view)
    /\ (Imported /\ KeyOf(event) # JNull)
           => Cardinality(RowsOf(view, KeyOf(event))) = 1
    /\ Keys(dbAtStart) \subseteq Keys(db)
    /\ Keys(dbAtStart) \subseteq Keys(view)
    /\ ~nullableKey => JNull \notin Keys(db) \cup Keys(view)

\* An id stored by an earlier run is upserted again with other content,
\* beside two rows whose id is null.
C1_Witness ==
    /\ Imported
    /\ Cardinality(RowsOf(view, JNull)) = 2
    /\ \E r \in dbAtStart :
           /\ r.googleEventId = KeyOf(event)
           /\ r.googleEventId # JNull
           /\ NonKey(r) # NonKey(Written)

(* C2: Every failure of a record is caught, counted as one error, and the   *)
(* loop goes on: the errors counted are the failures raised, every record   *)
(* taken is counted as synced or as an error, and no record makes the run   *)
(* end before its commit.                                                   *)
C2_FailureIsCountedAndSkipped ==
    /\ errors = raised
    /\ synced + errors = idx
    /\ pc # "crashed"

(* C3: A run over N records of which K raised reports synced = N - K and    *)
(* errors = K, and has committed what its N - K statements wrote.           *)
C3_ReportsSyncedAndErrors ==
    pc \in {"done", "crashed"} =>
        /\ reported = <<found - raised, raised>>
        /\ execs = found - raised
        /\ db = view

\* the inputs on which the run is to stop before the loop
IsFatalInput(inp) ==
    \/ ~inp.hasPath
    \/ ~inp.readable
    \/ ~inp.validJson
    \/ inp.data # "list"
    \/ ~(inp.envUrl \/ inp.dotEnvUrl)
    \/ ~inp.dbUp

(* C4: A run on a fatal input (no path argument, unreadable file, invalid   *)
(* JSON, `result` not an array, no connection string, no connection) stops  *)
(* before the loop: no connection, no statement, no commit, and the table   *)
(* as it was before the run.                                                *)
C4_FatalBeforeAnyWrite ==
    (pc # "idle" /\ IsFatalInput(input)) =>
        /\ pc = "fatal"
        /\ conn = "none"
        /\ execs = 0
        /\ commits = 0
        /\ db = dbAtStart
        /\ view = dbAtStart

\* The server is unreachable for a run that starts on a table with rows.
C4_Witness == pc = "fatal" /\ ~input.dbUp /\ db # {}

(* C5: A run that opened the connection issues exactly one commit, after    *)
(* the last record; the connection is closed only after it; and nothing     *)
(* the run wrote is in the committed table before it.                       *)
C5_OneCommitAfterTheBatch ==
    /\ commits <= 1
    /\ pc \in {"done", "crashed"} => commits = 1 /\ conn = "closed"
    /\ commits = 1 => pending = <<>>
    /\ conn = "closed" => commits = 1
    /\ commits = 0 => db = dbAtStart

\* the table after holds one row under the key k, with the fields other
\* than syncedAt of the row the table before held under k, and a syncedAt
\* that is not earlier
ReimportKeeps(k, before, after) ==
    \E r1 \in after :
        /\ RowsOf(after, k) = {r1}
        /\ \A r \in RowsOf(before, k) :
               NonKey(r1) = NonKey(r) /\ r1.syncedAt >= r.syncedAt

\* this step imports a record that the step before imported, or one whose
\* fields the table already holds under its id: the row an earlier import
\* of the identical record left
Reimports ==
    /\ synced' = synced + 1
    /\ \/ Imported /\ event' = event
       \/ \E r \in view : /\ r.googleEventId = KeyOf(event')
                          /\ NonKey(r) = Stored(params')

(* C6, as stated: when a record is imported a second time, right after its  *)
(* first import or onto the row an earlier import of the identical record   *)
(* left, the table afterwards holds exactly one row for that id, with the   *)
(* same fields other than syncedAt, and a syncedAt not earlier than before. *)
C6_ReimportIsIdempotent ==
    [][Reimports => ReimportKeeps(KeyOf(event'), view, view')]_vars

(* C6, amended: when a record whose id is not null is imported a second     *)
(* time, right after its first import or onto the row an earlier import of  *)
(* the identical record left, the table afterwards holds exactly one row    *)
(* for that id, with the same fields other than syncedAt, and a syncedAt    *)
(* not earlier than before.                                                 *)
C6_ReimportOfNonNullIdIsIdempotent ==
    [][(Reimports /\ KeyOf(event') # JNull)
           => ReimportKeeps(KeyOf(event'), view, view')]_vars

\* A record stored by an earlier run is imported again at a later time.
C6_Witness ==
    /\ Imported
    /\ KeyOf(event) # JNull
    /\ \E r \in dbAtStart :
           /\ r.googleEventId = KeyOf(event)
           /\ NonKey(r) = Stored(params)
           /\ NonKey(Written) = NonKey(r)
           /\ Written.syncedAt > r.syncedAt

HasKey(x, k) == x.t = "obj" /\ k \in DOMAIN x.fields

\* the event's start (end) object, {} when it has none
StartOf(e) == IF HasKey(e, "start") THEN e.fields.start ELSE JObj(<<>>)
EndOf(e) == IF HasKey(e, "end") THEN e.fields.end ELSE JObj(<<>>)

\* dt is the value of x's dateTime
TakenFromDateTime(x, dt) ==
    /\ HasKey(x, "dateTime")
    /\ x.fields.dateTime.t = "str"
    /\ dt = FromIsoFormat(ReplaceZ(x.fields.dateTime.str))

\* the text is a calendar date and nothing more
IsDateText(text) ==
    ~IsErr(FromIsoFormat(text)) /\ FindSeparator(text) >= Len(text)

\* the day the text names, at h:m:s UTC
DayAt(text, h, m, s) ==
    LET at(day) ==
            DateTime(day.year, day.month, day.day, h, m, s, 0, TRUE, 0, 0)
    IN  at(FromIsoFormat(text))

\* dt is x's date, or 2026-01-01 when x has none, at h:m:s UTC; of a
\* date that is not a calendar date and nothing more, nothing is said
SynthesizedFromDate(x, dt, h, m, s) ==
    IF HasKey(x, "date")
    THEN IsDateText(Format(x.fields.date))
             => dt = DayAt(Format(x.fields.date), h, m, s)
    ELSE dt = DateTime(2026, 1, 1, h, m, s, 0, TRUE, 0, 0)

(* C7, as stated: an imported event is stored as all-day exactly when its   *)
(* start lacks a dateTime key, and exactly when its startTime was not taken *)
(* from dateTime but synthesized from date or the fallback date.            *)
C7_AllDayIffSynthesized ==
    Imported =>
        /\ Written.isAllDay <=> ~HasKey(StartOf(event), "dateTime")
        /\ Written.isAllDay <=>
               /\ ~TakenFromDateTime(StartOf(event), Written.startTime)
               /\ SynthesizedFromDate(StartOf(event), Written.startTime, 0, 0, 0)

(* C7, amended: an imported event is stored as all-day exactly when its     *)
(* start lacks a dateTime key; an all-day row always has a startTime        *)
(* synthesized from date or the fallback date; a row that is not all-day    *)
(* has a startTime taken from dateTime, or else its dateTime is empty       *)
(* (null, false, 0, "", [] or {}) and its startTime is synthesized all the  *)
(* same.                                                                    *)
C7_AllDayIffNoDateTimeKey ==
    Imported =>
        /\ Written.isAllDay <=> ~HasKey(StartOf(event), "dateTime")
        /\ Written.isAllDay =>
               /\ ~TakenFromDateTime(StartOf(event), Written.startTime)
               /\ SynthesizedFromDate(StartOf(event), Written.startTime, 0, 0, 0)
        /\ ~Written.isAllDay =>
               \/ TakenFromDateTime(StartOf(event), Written.startTime)
               \/ /\ ~Truthy(StartOf(event).fields.dateTime)
                  /\ SynthesizedFromDate(StartOf(event), Written.startTime, 0, 0, 0)

\* An event whose start has an empty dateTime and a date is stored with the
\* date's midnight as startTime and not as all-day.
C7_Witness ==
    /\ Imported
    /\ event = EvEmptyDateTime
    /\ ~Written.isAllDay
    /\ Written.startTime = DateTime(2025, 3, 2, 0, 0, 0, 0, TRUE, 0, 0)

(* C8, as stated: startTime and endTime of an imported event are each the   *)
(* value of dateTime if the object has that key; otherwise its date at      *)
(* 00:00:00 UTC (start) or 23:59:59 UTC (end); otherwise 2026-01-01 at      *)
(* those times.                                                             *)
C8_DateTimeIfPresent ==
    Imported =>
        /\ IF HasKey(StartOf(event), "dateTime")
           THEN TakenFromDateTime(StartOf(event), Written.startTime)
           ELSE SynthesizedFromDate(StartOf(event), Written.startTime, 0, 0, 0)
        /\ IF HasKey(EndOf(event), "dateTime")
           THEN TakenFromDateTime(EndOf(event), Written.endTime)
           ELSE SynthesizedFromDate(EndOf(event), Written.endTime, 23, 59, 59)

\* x has a dateTime that is not empty: not null, false, 0, "", [] or {}
HasDateTimeValue(x) == HasKey(x, "dateTime") /\ Truthy(x.fields.dateTime)

(* C8, amended: startTime and endTime of an imported event are each the     *)
(* value of dateTime if the object has that key with a value that is not   *)
(* empty (not null, false, 0, "", [] or {}); otherwise its date, when it is *)
(* a calendar date, at 00:00:00 UTC (start) or 23:59:59 UTC (end);          *)
(* otherwise 2026-01-01 at those times.  The all-day event of 2025-03-01 is *)
(* stored from 2025-03-01T00:00:00Z to 2025-03-01T23:59:59Z.                *)
C8_DateTimeIfNotEmpty ==
    Imported =>
        /\ IF HasDateTimeValue(StartOf(event))
           THEN TakenFromDateTime(StartOf(event), Written.startTime)
           ELSE SynthesizedFromDate(StartOf(event), Written.startTime, 0, 0, 0)
        /\ IF HasDateTimeValue(EndOf(event))
           THEN TakenFromDateTime(EndOf(event), Written.endTime)
           ELSE SynthesizedFromDate(EndOf(event), Written.endTime, 23, 59, 59)
        /\ event = EvAllDay =>
               /\ Written.startTime = DateTime(2025, 3, 1, 0, 0, 0, 0, TRUE, 0, 0)
               /\ Written.endTime = DateTime(2025, 3, 1, 23, 59, 59, 0, TRUE, 0, 0)

\* Start and end resolve differently: the start from its dateTime, the end,
\* which has neither key, from the fallback date.
C8_Witness ==
    /\ Imported
    /\ HasDateTimeValue(StartOf(event))
    /\ ~HasKey(event, "end")
    /\ Written.startTime = DateTime(2025, 3, 1, 10, 0, 0, 0, TRUE, -18000, 0)
    /\ Written.endTime = DateTime(2026, 1, 1, 23, 59, 59, 0, TRUE, 0, 0)

\* e with the id "e1"
WithId(e) ==
    JObj(<<<<"id", JStr("e1")>>>>
            \o [i \in 1..Len(e.keys) |-> <<e.keys[i], e.fields[e.keys[i]]>>])

(* C9: The table never holds more than one row under the empty id.  An      *)
(* event without an id never ends the run, fails only where the same event  *)
(* with an id would fail or where the server rejects the statement, and,    *)
(* once imported, is the one row under the empty id; without a summary      *)
(* too, that row's summary is "Untitled".                                   *)
C9_MissingIdIsEmptyKey ==
    /\ Cardinality(RowsOf(db, JStr(""))) <= 1
    /\ Cardinality(RowsOf(view, JStr(""))) <= 1
    /\ (outcome # "none" /\ event.t = "obj" /\ ~HasKey(event, "id")) =>
           /\ outcome # "crash"
           /\ ~IsErr(Normalize(WithId(event))) => outcome \in {"synced", "rejected"}
           /\ Imported =>
                  \E r \in view :
                      /\ RowsOf(view, JStr("")) = {r}
                      /\ NonKey(r) = Stored(Normalize(WithId(event)))
                      /\ ~HasKey(event, "summary") => r.summary = JStr("Untitled")

\* The event with no field at all is imported onto the row an earlier run
\* stored for another event without an id.
C9_Witness ==
    /\ Imported
    /\ event = EvEmpty
    /\ \E r \in dbAtStart : r.googleEventId = JStr("") /\ r.summary = JStr("Lunch")
    /\ \E r \in view : RowsOf(view, JStr("")) = {r} /\ r.summary = JStr("Untitled")

\* the table after holds one row under the key k, with the fields p is
\* stored as and the time ts, and every other row of the table before
Overwrites(p, k, before, after, ts) ==
    \E r \in after :
        /\ RowsOf(after, k) = {r}
        /\ NonKey(r) = Stored(p)
        /\ r.syncedAt = ts
        /\ after \ {r} = before \ RowsOf(before, k)

(* C10: The row stored for an id is, in every field other than the key,     *)
(* the normalization of the most recent successfully processed record with  *)
(* that id: an upsert leaves exactly one row for the record's id, whose     *)
(* fields other than the key are the record's normalization (null where the *)
(* record omits an optional field) and whose syncedAt is the time of the    *)
(* statement, and leaves every other row as it was; and no other step of    *)
(* the importer changes a row, unless it is the server failing the commit.  *)
C10_UpsertOverwritesEveryField ==
    [][IF synced' = synced + 1
       THEN Overwrites(params', KeyOf(event'), view, view', now')
       ELSE view' = view \/ pc' = "aborted"]_vars

====
